---------------------------- MODULE Spec2Model ----------------------------
(***************************************************************************)
(* Model of analyze-results.py: the CSV loader, the aggregation fold over  *)
(* the rows, and the three report passes (overall summary, per-layout      *)
(* detail, comparison table).                                              *)
(***************************************************************************)
EXTENDS Integers, Sequences, FiniteSets, TLC

(***************************************************************************)
(* Python floats.  A rate is computed as  n / d * 100  on binary64 floats   *)
(* and shown with the format  .1f.  A positive float is                     *)
(* [m |-> M, e |-> E], the value M * 2^E with M a natural number of exactly *)
(* Precision bits, held as a little-endian sequence of limbs in base        *)
(* LimbBase (the model checker's integers are 32 bits wide).  Zero is the   *)
(* float with an empty significand.                                         *)
(***************************************************************************)
Precision == 53

LimbBits == 20

LimbBase == 2 ^ LimbBits

\* Number of limbs the quotient of a division is developed to below the point.
DivLimbs == 4

\* Limb p of X, zero beyond its length.
Limb(X, p) == IF p >= 1 /\ p <= Len(X) THEN X[p] ELSE 0

\* X without its leading (most significant) zero limbs.
Strip(X) ==
    LET used == {k \in 1..Len(X) : X[k] # 0}
    IN  IF used = {} THEN <<>>
        ELSE SubSeq(X, 1, CHOOSE k \in used : \A n \in used : n <= k)

\* The limbs of a natural number n (an int has at most two).
FromInt(n) == Strip(<<n % LimbBase, n \div LimbBase>>)

\* The natural number of a limb sequence of at most two limbs.
ToInt(X) == Limb(X, 1) + LimbBase * Limb(X, 2)

\* X + Y: limb k takes a carry when some lower limb overflows and every limb
\* between passes the carry on.
BigAdd(X, Y) ==
    LET n        == (IF Len(X) > Len(Y) THEN Len(X) ELSE Len(Y)) + 1
        sum(k)   == Limb(X, k) + Limb(Y, k)
        carry(k) == IF \E m \in 1..(k - 1) :
                          /\ sum(m) >= LimbBase
                          /\ \A q \in (m + 1)..(k - 1) : sum(q) = LimbBase - 1
                    THEN 1 ELSE 0
    IN  Strip([k \in 1..n |-> (sum(k) + carry(k)) % LimbBase])

\* X - Y, for X >= Y: limb k lends when some lower limb of X is smaller than
\* Y's and every limb between is equal.
BigSub(X, Y) ==
    LET borrow(k) == IF \E m \in 1..(k - 1) :
                           /\ Limb(X, m) < Limb(Y, m)
                           /\ \A q \in (m + 1)..(k - 1) : Limb(X, q) = Limb(Y, q)
                     THEN 1 ELSE 0
    IN  Strip([k \in 1..Len(X) |->
                 (Limb(X, k) - Limb(Y, k) - borrow(k) + LimbBase) % LimbBase])

\* X * c for a small natural number c: the low parts of the limb products plus
\* their high parts one limb up.
MulSmall(X, c) ==
    BigAdd([k \in 1..Len(X) |-> (X[k] * c) % LimbBase],
           [k \in 1..(Len(X) + 1) |-> (Limb(X, k - 1) * c) \div LimbBase])

\* X + 1.
Inc(X) == BigAdd(X, <<1>>)

\* Number of bits of a natural number below LimbBase.
IntBitLen(n) == CHOOSE k \in 0..LimbBits : n < 2 ^ k /\ (k = 0 \/ n >= 2 ^ (k - 1))

\* Number of bits of X (0 for zero).
BitLen(X) ==
    IF X = <<>> THEN 0 ELSE LimbBits * (Len(X) - 1) + IntBitLen(X[Len(X)])

\* X * 2^s.
ShiftLeft(X, s) ==
    LET a == s \div LimbBits
        b == s % LimbBits
        n == Len(X) + a + 1
    IN  Strip([p \in 1..n |->
                 IF p <= a THEN 0
                 ELSE ((Limb(X, p - a) % (2 ^ (LimbBits - b))) * (2 ^ b))
                      + (Limb(X, p - a - 1) \div (2 ^ (LimbBits - b)))])

\* X \div 2^s.
ShiftRight(X, s) ==
    LET a == s \div LimbBits
        b == s % LimbBits
        n == IF Len(X) > a THEN Len(X) - a ELSE 0
    IN  Strip([p \in 1..n |->
                 (Limb(X, p + a) \div (2 ^ b))
                 + ((Limb(X, p + a + 1) % (2 ^ b)) * (2 ^ (LimbBits - b)))])

\* Bit p of X, bit 0 the least significant.
Bit(X, p) == (Limb(X, (p \div LimbBits) + 1) \div (2 ^ (p % LimbBits))) % 2

\* Whether any of the s lowest bits of X is set.
LowBitsSet(X, s) ==
    \/ \E p \in 1..(s \div LimbBits) : Limb(X, p) # 0
    \/ Limb(X, (s \div LimbBits) + 1) % (2 ^ (s % LimbBits)) # 0

FloatZero == [m |-> <<>>, e |-> 0]

\* Round to nearest, ties to even: X * 2^e, with `sticky' telling that the
\* exact value lies strictly above X * 2^e (and below (X + 1) * 2^e).
RoundToPrecision(X, sticky, e) ==
    LET L == BitLen(X)
    IN  IF L = 0 THEN FloatZero
        ELSE IF L <= Precision
        THEN [m |-> ShiftLeft(X, Precision - L), e |-> e - (Precision - L)]
        ELSE LET s     == L - Precision
                 Q     == ShiftRight(X, s)
                 guard == Bit(X, s - 1) = 1
                 rest  == sticky \/ LowBitsSet(X, s - 1)
                 up    == guard /\ (rest \/ Bit(Q, 0) = 1)
                 R     == IF up THEN Inc(Q) ELSE Q
             IN  IF BitLen(R) > Precision
                 THEN [m |-> ShiftRight(R, 1), e |-> e + s + 1]
                 ELSE [m |-> R, e |-> e + s]

\* The first DivLimbs limbs, most significant first, of the expansion of r / d
\* in base LimbBase (r < d), and after them the remainder left.
DivLimbsOf(r, d) ==
    LET r1 == (r * LimbBase) % d
        r2 == (r1 * LimbBase) % d
        r3 == (r2 * LimbBase) % d
        r4 == (r3 * LimbBase) % d
    IN  <<(r * LimbBase) \div d, (r1 * LimbBase) \div d,
          (r2 * LimbBase) \div d, (r3 * LimbBase) \div d, r4>>

\* Reverse of a sequence.
Reverse(s) == [p \in 1..Len(s) |-> s[Len(s) + 1 - p]]

\* n / d : true division of two ints (n >= 0, d > 0), correctly rounded.
FloatDiv(n, d) ==
    LET ds   == DivLimbsOf(n % d, d)
        frac == Reverse(SubSeq(ds, 1, DivLimbs))
        X    == Strip(frac \o FromInt(n \div d))
    IN  RoundToPrecision(X, ds[DivLimbs + 1] # 0, -(LimbBits * DivLimbs))

\* x * c for a float x and a small int c.
FloatMul(x, c) == RoundToPrecision(MulSmall(x.m, c), FALSE, x.e)

\* c - x for an int c and a float 0 <= x <= c.
FloatRSub(c, x) ==
    IF x.m = <<>> THEN RoundToPrecision(FromInt(c), FALSE, 0)
    ELSE RoundToPrecision(BigSub(ShiftLeft(FromInt(c), -x.e), x.m), FALSE, x.e)

\* format(x, ".1f"): the decimal shown, as a number of tenths ("63.7" is 637):
\* x * 10 rounded to the nearest integer, ties to even.
Fmt1(x) ==
    IF x.m = <<>> THEN 0
    ELSE LET T     == MulSmall(x.m, 10)
             s     == -x.e
             Q     == ShiftRight(T, s)
             guard == Bit(T, s - 1) = 1
             rest  == LowBitsSet(T, s - 1)
             up    == guard /\ (rest \/ Bit(Q, 0) = 1)
         IN  ToInt(IF up THEN Inc(Q) ELSE Q)

(***************************************************************************)
(* Bounds: the files of the model hold up to MaxRecords arbitrary lines, or *)
(* up to MaxTests lines of two fixed kinds.                                 *)
(***************************************************************************)
MaxRecords == 2

MaxTests == 80

MaxCount == IF MaxTests > MaxRecords THEN MaxTests ELSE MaxRecords

\* n / d * 100 on floats (lines 61, 62, 70, 82, 103, 109).
Rate(n, d) == FloatMul(FloatDiv(n, d), 100)

\* For every count d the model reaches and every n <= d (at index n + 1): what
\* the format .1f shows of n / d * 100 (lines 61, 62, 75, 84, 110, 114) and of
\* 100 - n / d * 100 (line 76).  Concatenating <<>> makes each sequence an
\* explicit value, so that an entry is evaluated once and not at every use.
RateTable ==
    [d \in 1..MaxCount |->
        [k \in 1..(d + 1) |->
            [shown |-> Fmt1(Rate(k - 1, d)),
             rest  |-> Fmt1(FloatRSub(100, Rate(k - 1, d)))]] \o <<>>] \o <<>>

\* f"{n / d * 100:.1f}"
Shown(n, d) == RateTable[d][n + 1].shown

\* f"{100 - n / d * 100:.1f}"
ShownRest(n, d) == RateTable[d][n + 1].rest

(***************************************************************************)
(* Strings.  Layout names are compared by sorted() code point by code point *)
(* and upper-cased by str.upper(); CodePoints gives the code points of the  *)
(* names the model draws.                                                   *)
(***************************************************************************)
CodePoints(s) ==
    CASE s = "grid" -> <<103, 114, 105, 100>>
      [] s = "Grid" -> <<71, 114, 105, 100>>
      [] s = "list" -> <<108, 105, 115, 116>>
      [] s = "gr"   -> <<103, 114>>

\* str.__lt__ on the code points.
LexLess(a, b) ==
    \E k \in 1..(Len(a) + 1) :
        /\ \A n \in 1..(k - 1) : n <= Len(b) /\ a[n] = b[n]
        /\ \/ k > Len(a) /\ k <= Len(b)
           \/ k <= Len(a) /\ k <= Len(b) /\ a[k] < b[k]

\* str.upper() on the code points (ASCII letters).
Upper(cs) == [n \in 1..Len(cs) |-> IF cs[n] \in 97..122 THEN cs[n] - 32 ELSE cs[n]]

RECURSIVE Sorted(_)
\* sorted(S) for a set S of strings: ascending.
Sorted(S) ==
    IF S = {} THEN <<>>
    ELSE LET m == CHOOSE x \in S :
                     \A y \in S : x = y \/ LexLess(CodePoints(x), CodePoints(y))
         IN  <<m>> \o Sorted(S \ {m})

(***************************************************************************)
(* The loader (lines 6-10).                                                 *)
(***************************************************************************)
\* The value csv.DictReader gives a column the row has no cell for (restval),
\* and the key it files surplus cells under (restkey): Python's None.
NoneValue == "<None>"

RequiredColumns == {"Layout", "Direction", "Status", "Expected", "Actual"}

FullHeader == <<"Layout", "Direction", "Status", "Expected", "Actual">>

\* The dict csv.DictReader makes of one non-empty line.
DictRow(hdr, cells) ==
    LET base == [c \in {hdr[k] : k \in 1..Len(hdr)} |->
                   LET k == CHOOSE k \in 1..Len(hdr) : hdr[k] = c
                   IN  IF k <= Len(cells) THEN cells[k] ELSE NoneValue]
    IN  IF Len(cells) > Len(hdr)
        THEN base @@ (NoneValue :> SubSeq(cells, Len(hdr) + 1, Len(cells)))
        ELSE base

\* The rows csv.DictReader yields: blank lines are skipped.
ReadRows(hdr, ls) ==
    LET kept == SelectSeq(ls, LAMBDA c : c # <<>>)
    IN  [k \in 1..Len(kept) |-> DictRow(hdr, kept[k])]

(***************************************************************************)
(* The aggregation fold (lines 13-45).                                      *)
(***************************************************************************)
\* The inner default factory (line 17).
NewDirectionStats == [total |-> 0, passed |-> 0, failed |-> 0]

\* The outer default factory (lines 13-19).
NewLayoutStats ==
    [total |-> 0, passed |-> 0, failed |-> 0,
     by_direction |-> <<>>,
     failure_types |-> [unexpected |-> 0, missing |-> 0, wrong_target |-> 0]]

\* Mutant of Touch: inserting a key drops the keys already there.
TouchReplacing(d, key, default) == IF key \in DOMAIN d THEN d ELSE key :> default

\* defaultdict.__getitem__: a missing key is inserted with the default.
Touch(d, key, default) == IF key \in DOMAIN d THEN d ELSE d @@ (key :> default)

\* Mutant of FailureType: a failure with neither navigation expected nor one
\* observed is filed under unexpected.
FailureTypeNullFirst(expected, actual) ==
    IF expected = "null" THEN "unexpected"
    ELSE IF actual = "null" THEN "missing"
    ELSE "wrong_target"

\* Lines 40-45.
FailureType(expected, actual) ==
    IF expected = "null" /\ actual # "null" THEN "unexpected"
    ELSE IF expected # "null" /\ actual = "null" THEN "missing"
    ELSE "wrong_target"

\* Line 32.
IsPass(status) == status = "PASS"

\* Mutant of Count: the failed counter is left alone.
CountForgetsFailed(c, pass) ==
    [c EXCEPT !.total = @ + 1, !.passed = IF pass THEN @ + 1 ELSE @]

\* The three counters after one more row (lines 29-37, at either level).
Count(c, pass) ==
    [c EXCEPT !.total = @ + 1,
              !.passed = IF pass THEN @ + 1 ELSE @,
              !.failed = IF pass THEN @ ELSE @ + 1]

\* Mutant of AggregateRow: the direction's counters are started afresh at
\* every row instead of being looked up.
AggregateRowFreshDirection(ls, row) ==
    LET layout    == row["Layout"]
        direction == row["Direction"]
        s0        == Touch(ls, layout, NewLayoutStats)[layout]
        bd0       == Touch(s0.by_direction, direction, NewDirectionStats)
        pass      == IsPass(row["Status"])
        kind      == FailureType(row["Expected"], row["Actual"])
        s1        == [Count(s0, pass) EXCEPT
                        !.by_direction =
                            [bd0 EXCEPT ![direction] = Count(NewDirectionStats, pass)],
                        !.failure_types =
                            IF pass THEN @ ELSE [@ EXCEPT ![kind] = @ + 1]]
    IN  [Touch(ls, layout, NewLayoutStats) EXCEPT ![layout] = s1]

\* Lines 22-45 for one row: the mapping after it.
AggregateRow(ls, row) ==
    LET layout    == row["Layout"]
        direction == row["Direction"]
        s0        == Touch(ls, layout, NewLayoutStats)[layout]
        bd0       == Touch(s0.by_direction, direction, NewDirectionStats)
        pass      == IsPass(row["Status"])
        kind      == FailureType(row["Expected"], row["Actual"])
        s1        == [Count(s0, pass) EXCEPT
                        !.by_direction =
                            [bd0 EXCEPT ![direction] = Count(bd0[direction], pass)],
                        !.failure_types =
                            IF pass THEN @ ELSE [@ EXCEPT ![kind] = @ + 1]]
    IN  [Touch(ls, layout, NewLayoutStats) EXCEPT ![layout] = s1]

(***************************************************************************)
(* The report (lines 47-117).                                               *)
(***************************************************************************)
\* Lines 79 and 106.
CanonicalDirections == <<"up", "down", "left", "right">>

RECURSIVE SumOver(_, _, _)
\* sum(s[field] for s in layout_stats.values()) (lines 54-56).
SumOver(ls, S, field) ==
    IF S = {} THEN 0
    ELSE LET l == CHOOSE l \in S : TRUE
         IN  ls[l][field] + SumOver(ls, S \ {l}, field)

\* stats['by_direction'][direction] for the four directions (lines 80, 107):
\* the lookups insert the directions the layout has no entry for.
TouchDirections(bd) ==
    Touch(Touch(Touch(Touch(bd, "up", NewDirectionStats),
                      "down", NewDirectionStats),
                "left", NewDirectionStats),
          "right", NewDirectionStats)

\* Lines 70, 75, 103 and 114: the success rate shown, the int 0 of the else
\* branch when the layout has no tests.
SuccessRateShown(stats) ==
    IF stats.total > 0 THEN Shown(stats.passed, stats.total) ELSE Fmt1(FloatZero)

\* Line 76: 100 - success_rate, shown.
FailureRateShown(stats) ==
    IF stats.total > 0 THEN ShownRest(stats.passed, stats.total)
    ELSE Fmt1(FloatRSub(100, FloatZero))

\* Lines 79-85: the direction lines of one layout.
DirectionLines(bd) ==
    LET line(d) == [direction |-> d, total |-> bd[d].total,
                    passed |-> bd[d].passed,
                    rate |-> Shown(bd[d].passed, bd[d].total),
                    failed |-> bd[d].failed]
        shown   == SelectSeq(CanonicalDirections, LAMBDA d : bd[d].total > 0)
    IN  [k \in 1..Len(shown) |-> line(shown[k])]

\* Mutant of DirRates: a direction without attempts is shown as 0.0%.
DirRatesZeroPercent(bd) ==
    [k \in 1..Len(CanonicalDirections) |->
        LET dir_stats == bd[CanonicalDirections[k]]
        IN  IF dir_stats.total > 0
            THEN [pct |-> Shown(dir_stats.passed, dir_stats.total)]
            ELSE [pct |-> 0]]

\* Lines 105-112: the four direction cells of one table row.
DirRates(bd) ==
    [k \in 1..Len(CanonicalDirections) |->
        LET dir_stats == bd[CanonicalDirections[k]]
        IN  IF dir_stats.total > 0
            THEN [pct |-> Shown(dir_stats.passed, dir_stats.total)]
            ELSE [text |-> "N/A"]]

(***************************************************************************)
(* The run of the script.                                                   *)
(***************************************************************************)
VARIABLES
    header,        \* the header line of the CSV file
    lines,         \* the lines after it, each a sequence of cells
    results,       \* the list of row dicts (line 6)
    i,             \* rows the aggregation loop has processed
    layout_stats,  \* line 13
    pc,            \* "load", "aggregate", "detail", "table", "done", "error"
    j,             \* layouts the running report loop has processed
    out,           \* what has been printed
    error          \* the uncaught exception, "" when none

vars == <<header, lines, results, i, layout_stats, pc, j, out, error>>

Layouts == {"grid", "Grid"}

Directions == {"up", "right", "diagonal"}

Statuses == {"PASS", "FAIL"}

Expecteds == {"null", "A"}

Actuals == {"null", "B"}

\* The well-formed lines: one cell per column.
Records == Layouts \X Directions \X Statuses \X Expecteds \X Actuals

SeqsUpTo(S, n) == UNION {[1..k -> S] : k \in 0..n}

\* The state the script starts in, for a given file.
Start(hdr, ls) ==
    /\ header = hdr
    /\ lines = ls
    /\ results = <<>>
    /\ i = 0
    /\ layout_stats = <<>>
    /\ pc = "load"
    /\ j = 0
    /\ out = <<>>
    /\ error = ""

\* Files of up to MaxRecords well-formed lines under the full header.
Init == \E ls \in SeqsUpTo(Records, MaxRecords) : Start(FullHeader, ls)

\* Headers: the full one, one without the Actual column, one with a column more.
LoaderHeaders ==
    {FullHeader,
     <<"Layout", "Direction", "Status", "Expected">>,
     <<"Layout", "Direction", "Status", "Expected", "Actual", "Note">>}

\* Lines of any number of cells up to five: the well-formed lines of one layout
\* and direction, cut short anywhere (the empty one is a blank line).
LoaderLines ==
    {SubSeq(r, 1, n) : r \in {"grid"} \X {"up"} \X Statuses \X Expecteds \X Actuals,
                       n \in 0..5}

\* Files of up to MaxRecords lines, short ones among them, under each header.
InitLoader ==
    \E hdr \in LoaderHeaders, ls \in SeqsUpTo(LoaderLines, MaxRecords) :
        Start(hdr, ls)

\* Files of up to MaxTests lines of one layout: passed tests, then failed ones.
InitSummary ==
    \E t \in 0..MaxTests : \E n \in 0..t :
        Start(FullHeader,
              [k \in 1..t |-> IF k <= n THEN <<"grid", "up", "PASS", "A", "A">>
                                        ELSE <<"grid", "down", "FAIL", "A", "B">>])

\* Lines 6-10.
Load ==
    /\ pc = "load"
    /\ results' = ReadRows(header, lines)
    /\ pc' = "aggregate"
    /\ UNCHANGED <<header, lines, i, layout_stats, j, out, error>>

\* One iteration of the loop of lines 21-45.
Aggregate ==
    /\ pc = "aggregate"
    /\ i < Len(results)
    /\ RequiredColumns \subseteq DOMAIN results[i + 1]
    /\ layout_stats' = AggregateRow(layout_stats, results[i + 1])
    /\ i' = i + 1
    /\ UNCHANGED <<header, lines, results, pc, j, out, error>>

\* Lines 22-26 on a row dict without one of the keys: KeyError.
AggregateKeyError ==
    /\ pc = "aggregate"
    /\ i < Len(results)
    /\ ~(RequiredColumns \subseteq DOMAIN results[i + 1])
    /\ pc' = "error"
    /\ error' = "KeyError"
    /\ UNCHANGED <<header, lines, results, i, layout_stats, j, out>>

\* Lines 54-56.
total_tests == SumOver(layout_stats, DOMAIN layout_stats, "total")

total_passed == SumOver(layout_stats, DOMAIN layout_stats, "passed")

total_failed == SumOver(layout_stats, DOMAIN layout_stats, "failed")

\* Mutant of FailedShare: the share of the passed tests is printed again.
FailedShareOfPassed == Shown(total_passed, total_tests)

\* Line 62: the share printed after the failed count.
FailedShare == Shown(total_failed, total_tests)

\* Lines 47-65 when there are tests.
Summary ==
    /\ pc = "aggregate"
    /\ i = Len(results)
    /\ total_tests # 0
    /\ out' = <<[kind |-> "title"],
                [kind |-> "summary",
                 total_tests |-> total_tests,
                 total_passed |-> total_passed,
                 passed_pct |-> Shown(total_passed, total_tests),
                 total_failed |-> total_failed,
                 failed_pct |-> FailedShare]>>
    /\ pc' = "detail"
    /\ j' = 0
    /\ UNCHANGED <<header, lines, results, i, layout_stats, error>>

\* Mutant of SummaryZeroDivision: 0.0% is substituted and the report goes on
\* (both loops are empty).
SummarySubstitutesZero ==
    /\ pc = "aggregate"
    /\ i = Len(results)
    /\ total_tests = 0
    /\ out' = <<[kind |-> "title"],
                [kind |-> "summary", total_tests |-> 0, total_passed |-> 0,
                 passed_pct |-> 0, total_failed |-> 0, failed_pct |-> 0]>>
    /\ pc' = "done"
    /\ UNCHANGED <<header, lines, results, i, layout_stats, j, error>>

\* Lines 47-61 when there are none: the title and the count are printed, then
\* line 61 divides by zero.
SummaryZeroDivision ==
    /\ pc = "aggregate"
    /\ i = Len(results)
    /\ total_tests = 0
    /\ out' = <<[kind |-> "title"], [kind |-> "total", total_tests |-> 0]>>
    /\ pc' = "error"
    /\ error' = "ZeroDivisionError"
    /\ UNCHANGED <<header, lines, results, i, layout_stats, j>>

RECURSIVE FirstSeen(_, _)
\* The distinct layouts of the rows in the order of their first occurrence.
FirstSeen(rows, seen) ==
    IF rows = <<>> THEN <<>>
    ELSE LET l == Head(rows)["Layout"]
         IN  IF l \in seen THEN FirstSeen(Tail(rows), seen)
             ELSE <<l>> \o FirstSeen(Tail(rows), seen \cup {l})

\* Mutant of SortedLayouts: the keys in the dict's own (insertion) order.
InsertionOrderLayouts == FirstSeen(SubSeq(results, 1, i), {})

\* sorted(layout_stats.keys()) (lines 68 and 101).
SortedLayouts == Sorted(DOMAIN layout_stats)

\* One iteration of the loop of lines 68-91.
Detail ==
    /\ pc = "detail"
    /\ j < Len(SortedLayouts)
    /\ LET layout       == SortedLayouts[j + 1]
           stats        == layout_stats[layout]
           bd           == TouchDirections(stats.by_direction)
       IN  /\ out' = Append(out,
                  [kind |-> "layout",
                   layout |-> layout,
                   heading |-> Upper(CodePoints(layout)),
                   total |-> stats.total,
                   passed |-> stats.passed,
                   passed_pct |-> SuccessRateShown(stats),
                   failed |-> stats.failed,
                   failed_pct |-> FailureRateShown(stats),
                   directions |-> DirectionLines(bd),
                   unexpected |-> stats.failure_types.unexpected,
                   missing |-> stats.failure_types.missing,
                   wrong_target |-> stats.failure_types.wrong_target])
           /\ layout_stats' = [layout_stats EXCEPT ![layout].by_direction = bd]
    /\ j' = IF j + 1 = Len(SortedLayouts) THEN 0 ELSE j + 1
    /\ pc' = IF j + 1 = Len(SortedLayouts) THEN "table" ELSE "detail"
    /\ UNCHANGED <<header, lines, results, i, error>>

\* One iteration of the loop of lines 101-114; after the last one, lines
\* 116-117 end the script.
Table ==
    /\ pc = "table"
    /\ j < Len(SortedLayouts)
    /\ LET layout       == SortedLayouts[j + 1]
           stats        == layout_stats[layout]
           bd           == TouchDirections(stats.by_direction)
       IN  /\ out' = Append(out,
                  [kind |-> "row",
                   layout |-> layout,
                   overall_rate |-> SuccessRateShown(stats),
                   dir_rates |-> DirRates(bd)])
           /\ layout_stats' = [layout_stats EXCEPT ![layout].by_direction = bd]
    /\ j' = j + 1
    /\ pc' = IF j + 1 = Len(SortedLayouts) THEN "done" ELSE "table"
    /\ UNCHANGED <<header, lines, results, i, error>>

Next ==
    \/ Load
    \/ Aggregate
    \/ Summary
    \/ SummaryZeroDivision
    \/ Detail
    \/ Table

Spec == Init /\ [][Next]_vars

\* The same script on the large files of InitSummary.
SpecSummary == InitSummary /\ [][Next]_vars

\* With files whose lines or header lack a column, the loop of lines 21-45 can
\* also end in a KeyError.
NextLoader ==
    \/ Next
    \/ AggregateKeyError

SpecLoader == InitLoader /\ [][NextLoader]_vars

(***************************************************************************)
(* Properties.                                                              *)
(***************************************************************************)
\* The aggregation loop has run to its end.
FoldEnded ==
    \/ pc = "aggregate" /\ i = Len(results)
    \/ pc \in {"detail", "table", "done"}
    \/ pc = "error" /\ error = "ZeroDivisionError"

\* The rows the loop has processed that satisfy P.
Processed(P(_)) == {k \in 1..i : P(results[k])}

\* What has been printed of one kind.
Items(kind) == SelectSeq(out, LAMBDA it : it.kind = kind)

LayoutsOf(items) == [k \in 1..Len(items) |-> items[k].layout]

SectionLayouts == LayoutsOf(Items("layout"))

RowLayouts == LayoutsOf(Items("row"))

FourDirections == {"up", "down", "left", "right"}

\* C1: at every point of the fold (and of the report after it), every layout
\* has total = passed + failed and failed = unexpected + missing +
\* wrong_target, and every direction entry of it has total = passed + failed.
C1_CountersAddUp ==
    \A l \in DOMAIN layout_stats :
        LET st == layout_stats[l]
        IN  /\ st.total = st.passed + st.failed
            /\ st.failed = st.failure_types.unexpected + st.failure_types.missing
                           + st.failure_types.wrong_target
            /\ \A d \in DOMAIN st.by_direction :
                   st.by_direction[d].total
                       = st.by_direction[d].passed + st.by_direction[d].failed

\* A layout with a passed and a failed row counted, in two directions.
C1_Witness ==
    \E l \in DOMAIN layout_stats :
        /\ layout_stats[l].passed >= 1
        /\ layout_stats[l].failed >= 1
        /\ Cardinality(DOMAIN layout_stats[l].by_direction) >= 2

\* The failure-type counters of layout l in a mapping, zero when it has none.
FailureTypesOf(ls, l) ==
    IF l \in DOMAIN ls THEN ls[l].failure_types
    ELSE [unexpected |-> 0, missing |-> 0, wrong_target |-> 0]

\* C2: processing one row leaves the failure-type counters of every layout
\* alone when its status is "PASS"; otherwise it adds 1 to exactly one counter
\* of the row's layout: unexpected for expected "null" and another actual,
\* missing for another expected and actual "null", wrong_target for the rest,
\* "null" and "null" included.
C2_OneFailureType ==
    [][(pc = "aggregate" /\ i' = i + 1) =>
        LET row    == results[i + 1]
            l      == row["Layout"]
            e      == row["Expected"]
            a      == row["Actual"]
            before == FailureTypesOf(layout_stats, l)
            after  == FailureTypesOf(layout_stats', l)
            kind   == IF e = "null" /\ a = "null" THEN "wrong_target"
                      ELSE IF e = "null" THEN "unexpected"
                      ELSE IF a = "null" THEN "missing"
                      ELSE "wrong_target"
        IN  /\ \A o \in DOMAIN layout_stats' \ {l} :
                   FailureTypesOf(layout_stats', o) = FailureTypesOf(layout_stats, o)
            /\ IF row["Status"] = "PASS" THEN after = before
               ELSE after = [before EXCEPT ![kind] = @ + 1]]_vars

\* A failed row with "null" expected and "null" observed has been counted as a
\* wrong target, and nothing else has.
C2_Witness ==
    /\ i = 1
    /\ results[1]["Status"] = "FAIL"
    /\ results[1]["Expected"] = "null"
    /\ results[1]["Actual"] = "null"
    /\ layout_stats[results[1]["Layout"]].failure_types
           = [unexpected |-> 0, missing |-> 0, wrong_target |-> 1]

\* Whether a row counts for a counter.
CountsFor(field, row) ==
    CASE field = "total"  -> TRUE
      [] field = "passed" -> row["Status"] = "PASS"
      [] field = "failed" -> row["Status"] # "PASS"

\* The sum of a counter over the four directions of a layout's entries.
FourDirectionSum(bd, field) ==
    LET at(d) == IF d \in DOMAIN bd THEN bd[d][field] ELSE 0
    IN  at("up") + at("down") + at("left") + at("right")

\* C3: for every layout and each of total, passed and failed, the counter of
\* the layout counts every processed row of the layout, and the sum over up,
\* down, left and right of the direction counters falls short of it by exactly
\* the rows of the layout whose direction is none of the four (by nothing when
\* there is none).
C3_DirectionSums ==
    \A l \in DOMAIN layout_stats : \A field \in {"total", "passed", "failed"} :
        LET mine(row)  == row["Layout"] = l /\ CountsFor(field, row)
            other(row) == mine(row) /\ row["Direction"] \notin FourDirections
        IN  /\ layout_stats[l][field] = Cardinality(Processed(mine))
            /\ FourDirectionSum(layout_stats[l].by_direction, field)
                   = layout_stats[l][field] - Cardinality(Processed(other))

\* A layout with a row in one of the four directions and a row in another one.
C3_Witness ==
    \E l \in DOMAIN layout_stats :
        /\ FourDirectionSum(layout_stats[l].by_direction, "total") = 1
        /\ layout_stats[l].total = 2

StrictlyAscending(names) ==
    \A k \in 1..(Len(names) - 1) :
        LexLess(CodePoints(names[k]), CodePoints(names[k + 1]))

\* The layouts of the file's rows.
InputLayouts == {results[k]["Layout"] : k \in 1..Len(results)}

\* C4: the detail sections and the table rows printed so far are each in
\* strictly ascending order of layout name, the rows follow the order of the
\* sections, and when a pass is over it has printed exactly the layouts that
\* occur in the file.
C4_SortedLayoutOrder ==
    /\ StrictlyAscending(SectionLayouts)
    /\ StrictlyAscending(RowLayouts)
    /\ Len(RowLayouts) <= Len(SectionLayouts)
    /\ RowLayouts = SubSeq(SectionLayouts, 1, Len(RowLayouts))
    /\ pc \in {"table", "done"} =>
           {SectionLayouts[k] : k \in 1..Len(SectionLayouts)} = InputLayouts
    /\ pc = "done" => RowLayouts = SectionLayouts

\* The report is complete for a file that names the larger layout first.
C4_Witness ==
    /\ pc = "done"
    /\ Len(results) = 2
    /\ LexLess(CodePoints(results[2]["Layout"]), CodePoints(results[1]["Layout"]))
    /\ RowLayouts = <<results[2]["Layout"], results[1]["Layout"]>>

\* C5: once the fold has ended, no step changes the aggregated mapping: the
\* layouts, the counters and the keys of every by_direction mapping stay.
C5_ReadOnlyAfterFold == [][FoldEnded => layout_stats' = layout_stats]_vars

\* A row dict lacks a required field: it has no such key, or csv.DictReader
\* filled the key in because the line had no cell for it.
Lacks(row) ==
    \E c \in RequiredColumns : c \notin DOMAIN row \/ row[c] = NoneValue

\* C6: a row lacking a required field is never counted, nothing is printed in
\* a run that holds one, and such a run does not end normally.
C6_LackingRowIsAnError ==
    (\E k \in 1..Len(results) : Lacks(results[k])) =>
        /\ \A k \in 1..i : ~Lacks(results[k])
        /\ out = <<>>
        /\ pc # "done"

\* The rows csv.DictReader yields for the file.
InputRows == ReadRows(header, lines)

\* The kinds of the lines of a full report for n layouts.
FullReportKinds(n) ==
    <<"title", "summary">> \o [k \in 1..n |-> "layout"] \o [k \in 1..n |-> "row"]

\* The guard of an action of Next holds (what an action states besides its
\* guard are the new values of the variables).
StepPossible ==
    \/ pc = "load"
    \/ pc = "aggregate" /\ i < Len(results)
                        /\ RequiredColumns \subseteq DOMAIN results[i + 1]
    \/ pc = "aggregate" /\ i = Len(results)
    \/ pc \in {"detail", "table"} /\ j < Len(SortedLayouts)

\* C7: on a file without rows the run stops in the overall summary with a
\* ZeroDivisionError, having printed no detail section and no table row, and
\* never ends normally; on a file with rows no error occurs, the run goes on
\* until it has ended, and it ends with the full report printed: the summary
\* of all rows, then a section and a table row for each layout.
C7_EmptyInputAborts ==
    /\ pc \in {"done", "error"} \/ StepPossible
    /\ InputRows = <<>> =>
           /\ pc \in {"load", "aggregate", "error"}
           /\ pc = "error" =>
                  /\ error = "ZeroDivisionError"
                  /\ out = <<[kind |-> "title"], [kind |-> "total", total_tests |-> 0]>>
    /\ InputRows # <<>> =>
           /\ pc # "error"
           /\ error = ""
           /\ pc = "done" =>
                  /\ [k \in 1..Len(out) |-> out[k].kind]
                         = FullReportKinds(Cardinality(InputLayouts))
                  /\ out[2].total_tests = Len(InputRows)

\* The run on an empty file has stopped with the error.
C7_Witness ==
    /\ InputRows = <<>>
    /\ pc = "error"
    /\ error = "ZeroDivisionError"

\* C8 as stated: the failed percentage of the overall summary is what
\* 100 - total_passed / total_tests * 100 shows to one decimal.
C8_FailedIsComplement ==
    \A k \in 1..Len(out) :
        out[k].kind = "summary" =>
            out[k].failed_pct = ShownRest(out[k].total_passed, out[k].total_tests)

Distance(a, b) == IF a > b THEN a - b ELSE b - a

\* C8 amended: the failed percentage of the overall summary is at most one
\* tenth of a point away from what 100 - total_passed / total_tests * 100
\* shows, and from 100 minus the passed percentage shown; the failed percentage
\* of a layout's detail section is what 100 - passed / total * 100 shows.
C8_FailedNearComplement ==
    \A k \in 1..Len(out) :
        /\ out[k].kind = "summary" =>
               /\ Distance(out[k].failed_pct,
                           ShownRest(out[k].total_passed, out[k].total_tests)) <= 1
               /\ Distance(out[k].failed_pct, 1000 - out[k].passed_pct) <= 1
        /\ out[k].kind = "layout" =>
               out[k].failed_pct = ShownRest(out[k].passed, out[k].total)

\* A report whose summary and detail section show different failed
\* percentages for the same counts.
C8_Witness ==
    /\ Len(out) >= 3
    /\ out[3].kind = "layout"
    /\ out[3].total = out[2].total_tests
    /\ out[3].failed = out[2].total_failed
    /\ out[3].failed_pct # out[2].failed_pct

\* The processed rows of a layout in a direction, and the passed ones.
Attempts(l, d) ==
    Cardinality({k \in 1..Len(results) :
                    results[k]["Layout"] = l /\ results[k]["Direction"] = d})

PassedAttempts(l, d) ==
    Cardinality({k \in 1..Len(results) :
                    /\ results[k]["Layout"] = l
                    /\ results[k]["Direction"] = d
                    /\ results[k]["Status"] = "PASS"})

\* C9: a detail section has a line for exactly the directions among up, down,
\* left, right (in this order) that the layout has rows for, with the count of
\* these rows and their rate; a table row has for each of the four, in this
\* order, the rate when the layout has rows for it and the N/A marker when it
\* has none; no other direction is shown, and a division by zero happens only
\* in the summary of a file without rows.
C9_RatesOnlyForAttempts ==
    /\ \A k \in 1..Len(out) :
        /\ out[k].kind = "layout" =>
               LET l     == out[k].layout
                   shown == SelectSeq(<<"up", "down", "left", "right">>,
                                      LAMBDA d : Attempts(l, d) > 0)
               IN  /\ Len(out[k].directions) = Len(shown)
                   /\ \A n \in 1..Len(shown) :
                          /\ out[k].directions[n].direction = shown[n]
                          /\ out[k].directions[n].total = Attempts(l, shown[n])
                          /\ out[k].directions[n].rate
                                 = Shown(PassedAttempts(l, shown[n]),
                                         Attempts(l, shown[n]))
        /\ out[k].kind = "row" =>
               LET l == out[k].layout
               IN  /\ Len(out[k].dir_rates) = 4
                   /\ \A n \in 1..4 :
                          LET d == <<"up", "down", "left", "right">>[n]
                          IN  IF Attempts(l, d) > 0
                              THEN out[k].dir_rates[n]
                                       = [pct |-> Shown(PassedAttempts(l, d),
                                                        Attempts(l, d))]
                              ELSE out[k].dir_rates[n] = [text |-> "N/A"]
    /\ error = "ZeroDivisionError" =>
           /\ results = <<>>
           /\ Items("layout") = <<>>
           /\ Items("row") = <<>>

\* A finished report for a file that has a row to the right before a row up of
\* the same layout: the section shows up, then right; the table row has rates
\* for the two and the marker for the others.
C9_Witness ==
    /\ pc = "done"
    /\ Len(results) = 2
    /\ results[1]["Direction"] = "right"
    /\ results[2]["Direction"] = "up"
    /\ results[1]["Layout"] = results[2]["Layout"]
    /\ Len(out[3].directions) = 2
    /\ out[4].dir_rates[2] = [text |-> "N/A"]

RECURSIVE FoldRows(_, _)
\* The loop of lines 21-45 over a list of rows.
FoldRows(ls, rows) ==
    IF rows = <<>> THEN ls
    ELSE FoldRows(AggregateRow(ls, Head(rows)), Tail(rows))

\* C10: when the fold ends, the mapping is the one the fold gives for every
\* permutation of the rows, and the overall totals are the number of rows and
\* the number of rows whose status is "PASS".
C10_OrderIndependent ==
    (pc = "aggregate" /\ i = Len(results)) =>
        /\ \A perm \in Permutations(1..Len(results)) :
               FoldRows(<<>>, [k \in 1..Len(results) |-> results[perm[k]]])
                   = layout_stats
        /\ total_tests = Len(results)
        /\ total_passed
               = Cardinality({k \in 1..Len(results) : results[k]["Status"] = "PASS"})

\* The fold has ended on two rows of different layouts.
C10_Witness ==
    /\ pc = "aggregate"
    /\ i = 2
    /\ Len(results) = 2
    /\ results[1]["Layout"] # results[2]["Layout"]
    /\ results[1]["Status"] # results[2]["Status"]

=============================================================================
